---- MODULE Spec2Model ----
(***************************************************************************)
(* Model of the Confirmation Aggregation Engine of the intellectual-       *)
(* honesty analyzer: the Cluster Scorer processBayesianConfirmation, the   *)
(* scoring phase of analyzeTopic that applies it to a report, and the      *)
(* Combiner of chatWithAnalyst (src/unnamed/part_000) and of the report    *)
(* view (radarData and the PDF summary, src/unnamed/part_001); and of the  *)
(* asynchronous parts: generateWithRetry (part_000), the App component     *)
(* with the analyzeTopic calls it awaits, and the chat of the report view  *)
(* (part_001).                                                             *)
(*                                                                         *)
(* Numbers.  A JavaScript number is modelled as a rational <<n, d>> in     *)
(* lowest terms with d > 0, or as one of the three non-finite values       *)
(* <<1, 0>> (Infinity), <<-1, 0>> (-Infinity) and <<0, 0>> (NaN).  The     *)
(* sign of zero is not modelled.  Overflow is modelled: a sum or product   *)
(* whose magnitude exceeds MaxNumber, the model's Number.MAX_VALUE, is     *)
(* Infinity or -Infinity, as in IEEE-754.                                  *)
(*                                                                         *)
(* Rounding.  The variable precision selects the arithmetic.  With         *)
(* precision = 0 every operation is exact: an equality between computed    *)
(* numbers is then an equality of real arithmetic, which the program       *)
(* satisfies up to the rounding of double precision (a relative error of   *)
(* at most 2^-53 per operation); for inputs >= 0 the conditions            *)
(* sumQ === 0 and U_not_i === 0 take the same side in both arithmetics.    *)
(* With precision = p > 0 the result of every +, -, * and / is rounded to  *)
(* the nearest number with a significand of p bits, ties to even, which is *)
(* IEEE-754 binary floating point with the 53 bits of a double scaled      *)
(* down to p.  The literals 0.0001, 0.001 and 1000 are kept exact.         *)
(***************************************************************************)
EXTENDS Integers, Sequences, FiniteSets, TLC

VARIABLES analysisData, results, pc, precision,
          report, scores, radarData, scoringResponse, pdfScores,
          retries, delay, attempts, waits, outcome,
          phase, topic, error, history, user, showHistory, analyzeCalls,
          chatHistory, chatInput, chatLoading, chatCalls

\* the state of a call of the Scorer
scorerVars == <<analysisData, results, precision>>

\* the report and what is computed from it
reportVars == <<report, scores, radarData, scoringResponse, pdfScores>>

\* the state of a call of generateWithRetry
retryVars == <<retries, delay, attempts, waits, outcome>>

\* the state of the App component, and the analyzeTopic calls it awaits
appVars == <<phase, topic, error, history, user, showHistory, analyzeCalls>>

\* the chat state of AnalysisReportView, and the chatWithAnalyst calls it awaits
chatVars == <<chatHistory, chatInput, chatLoading, chatCalls>>

\* the state outside the Scorer, the report and its scores
uiVars == <<retryVars, appVars, chatVars>>

vars == <<scorerVars, reportVars, uiVars, pc>>

(***************************************************************************)
(* Bounds of the model.                                                    *)
(***************************************************************************)
\* the longest judgment list that is scored
MaxM == 3

\* the largest finite number: Number.MAX_VALUE (about 1.8e308) scaled down
MaxNumber == 100000

\* the significand of a rounded number: the 53 bits of a double scaled down
SignificandBits == 14

\* the most evidence clusters a report holds
MaxClusters == 2

\* the most cluster analyses a scoring response holds
MaxAnalyses == 2

(***************************************************************************)
(* Number arithmetic (the JavaScript operators +, -, *, /, <=, ===).       *)
(***************************************************************************)
Abs(x) == IF x < 0 THEN -x ELSE x

Sign(x) == IF x < 0 THEN -1 ELSE IF x > 0 THEN 1 ELSE 0

RECURSIVE GCD(_, _)
GCD(a, b) == IF b = 0 THEN a ELSE GCD(b, a % b)

\* the number n / d (d # 0) in lowest terms with a positive denominator
Rat(n, d) ==
    LET g == GCD(Abs(n), Abs(d))
    IN  IF d < 0 THEN << -(n \div g), (-d) \div g >> ELSE << n \div g, d \div g >>

Num(n) == << n, 1 >>

Infinity == << 1, 0 >>
NegInfinity == << -1, 0 >>
NaN == << 0, 0 >>

IsFinite(x) == x[2] # 0
IsNaN(x) == x = NaN

\* the finite value x as the operation returns it: Infinity or -Infinity if
\* its magnitude exceeds MaxNumber
Overflow(x) ==
    LET q == Abs(x[1]) \div x[2]
    IN  IF q > MaxNumber \/ (q = MaxNumber /\ Abs(x[1]) % x[2] > 0)
        THEN << Sign(x[1]), 0 >>
        ELSE x

\* a / d (a, d > 0) with d doubled until a / d < 2^p: << a, d', k >> with
\* a / d' = (a / d) * 2^k, k <= 0
RECURSIVE ScaledDown(_, _, _, _)
ScaledDown(a, d, k, p) ==
    IF a \div d >= 2 ^ p THEN ScaledDown(a, 2 * d, k - 1, p) ELSE << a, d, k >>

\* long division: quotient q and remainder r of (a * 2^k) by d, continued
\* bit by bit until the quotient has p bits
RECURSIVE LongDivision(_, _, _, _, _)
LongDivision(q, r, d, k, p) ==
    IF q >= 2 ^ (p - 1) THEN << q, r, k >>
    ELSE LongDivision(2 * q + (IF 2 * r >= d THEN 1 ELSE 0), (2 * r) % d, d, k + 1, p)

\* the finite value x rounded to a significand of p bits, ties to even
RoundTo(x, p) ==
    IF x[1] = 0 THEN x
    ELSE LET s == ScaledDown(Abs(x[1]), x[2], 0, p)
             t == LongDivision(s[1] \div s[2], s[1] % s[2], s[2], s[3], p)
             m == IF 2 * t[2] > s[2] THEN t[1] + 1
                  ELSE IF 2 * t[2] = s[2] THEN t[1] + (t[1] % 2)
                  ELSE t[1]
         IN  IF t[3] >= 0 THEN Rat(Sign(x[1]) * m, 2 ^ t[3])
             ELSE << Sign(x[1]) * m * 2 ^ (-t[3]), 1 >>

\* the finite value x as the operation stores it
Round(x) == IF precision = 0 THEN x ELSE RoundTo(x, precision)

RNeg(x) == << -x[1], x[2] >>

\* a + b
RAdd(a, b) ==
    IF IsNaN(a) \/ IsNaN(b) THEN NaN
    ELSE IF ~IsFinite(a) /\ ~IsFinite(b) THEN (IF a = b THEN a ELSE NaN)
    ELSE IF ~IsFinite(a) THEN a
    ELSE IF ~IsFinite(b) THEN b
    ELSE LET g == GCD(a[2], b[2])
         IN  Overflow(Round(Rat(a[1] * (b[2] \div g) + b[1] * (a[2] \div g),
                                (a[2] \div g) * b[2])))

\* a - b
RSub(a, b) == RAdd(a, RNeg(b))

\* a * b
RMul(a, b) ==
    IF IsNaN(a) \/ IsNaN(b) THEN NaN
    ELSE IF ~IsFinite(a) \/ ~IsFinite(b)
         THEN << Sign(a[1]) * Sign(b[1]), 0 >>
    ELSE IF a[1] = 0 \/ b[1] = 0 THEN Num(0)
    ELSE LET g1 == GCD(Abs(a[1]), b[2])
             g2 == GCD(Abs(b[1]), a[2])
         IN  Overflow(Round(<< (a[1] \div g1) * (b[1] \div g2),
                               (a[2] \div g2) * (b[2] \div g1) >>))

\* 1 / b; 1 / 0 is Infinity and 1 / Infinity is 0
RInv(b) ==
    IF IsNaN(b) THEN NaN
    ELSE IF ~IsFinite(b) THEN Num(0)
    ELSE IF b[1] = 0 THEN Infinity
    ELSE IF b[1] < 0 THEN << -b[2], -b[1] >>
    ELSE << b[2], b[1] >>

\* a / b; x / 0 is Infinity, -Infinity or (0 / 0) NaN
RDiv(a, b) == RMul(a, RInv(b))

\* a < b; every comparison with NaN is false
RLt(a, b) ==
    IF IsNaN(a) \/ IsNaN(b) THEN FALSE
    ELSE IF ~IsFinite(a) \/ ~IsFinite(b)
         THEN (a # b) /\ (a = NegInfinity \/ b = Infinity)
    ELSE LET g == GCD(a[2], b[2])
         IN  a[1] * (b[2] \div g) < b[1] * (a[2] \div g)

\* a <= b
RLeq(a, b) == ~IsNaN(a) /\ ~IsNaN(b) /\ (a = b \/ RLt(a, b))

\* Math.max(a, b) and Math.min(a, b); NaN if either argument is NaN
RMax(a, b) == IF IsNaN(a) \/ IsNaN(b) THEN NaN ELSE IF RLt(a, b) THEN b ELSE a

RMin(a, b) == IF IsNaN(a) \/ IsNaN(b) THEN NaN ELSE IF RLt(b, a) THEN b ELSE a

(***************************************************************************)
(* The literals of the Scorer.                                             *)
(***************************************************************************)
\* weightDenominator <= 0.0001
NearCertain == << 1, 10000 >>
\* 0.001, the substitute of a zero catch-all and the lower clamp
LRMin == << 1, 1000 >>
\* 1000, the upper clamp
LRMax == << 1000, 1 >>
\* the neutral LR pushed on the near-certain path
Neutral == Num(1)

(***************************************************************************)
(* processBayesianConfirmation.  Indices are 1-based: hypothesis i of the  *)
(* code is entry i + 1 of the sequence.                                    *)
(***************************************************************************)
\* analysisData.reduce((sum, item) => sum + item.Q_i, 0), from entry k on
RECURSIVE ReduceQ(_, _, _)
ReduceQ(data, k, sum) ==
    IF k > Len(data) THEN sum ELSE ReduceQ(data, k + 1, RAdd(sum, data[k].Q_i))

\* faulty variant: the reduction starts from 1 instead of 0
SumQ_FromOne(data) == ReduceQ(data, 1, Num(1))

SumQ(data) == ReduceQ(data, 1, Num(0))

\* faulty variant: no guard against a zero sum
SafeSumQ_Unguarded(sumQ) == sumQ

\* const safeSumQ = sumQ === 0 ? 1 : sumQ
SafeSumQ(sumQ) == IF sumQ = Num(0) THEN Num(1) ELSE sumQ

\* analysisData.map(item => ({ id, val: item.Q_i / safeSumQ }))
Priors(data, safeSumQ) ==
    [k \in 1..Len(data) |->
        [id |-> data[k].hypothesis_id, val |-> RDiv(data[k].Q_i, safeSumQ)]]

\* faulty variant: the prior itself instead of its complement
WeightDenominator_PriorItself(P_Hi) == P_Hi

\* const weightDenominator = 1 - P_Hi
WeightDenominator(P_Hi) == RSub(Num(1), P_Hi)

\* if (weightDenominator <= 0.0001)
IsNearCertain(weightDenominator) == RLeq(weightDenominator, NearCertain)

\* faulty variant: the weight is not renormalized
Weight_Unnormalized(P_Hj, weightDenominator) == P_Hj

\* const w_j_i = P_Hj / weightDenominator
Weight(P_Hj, weightDenominator) == RDiv(P_Hj, weightDenominator)

\* faulty variant: the loop does not skip j = i
RECURSIVE CatchAllLoop_NoSkip(_, _, _, _, _, _)
CatchAllLoop_NoSkip(data, priors, weightDenominator, i, j, U_not_i) ==
    IF j > Len(data) THEN U_not_i
    ELSE CatchAllLoop_NoSkip(data, priors, weightDenominator, i, j + 1,
             RAdd(U_not_i, RMul(RDiv(priors[j].val, weightDenominator), data[j].U_i)))

\* for (j = 0; j < M; j++) { if (i === j) continue; U_not_i += w_j_i * U_j }
RECURSIVE CatchAllLoop(_, _, _, _, _, _)
CatchAllLoop(data, priors, weightDenominator, i, j, U_not_i) ==
    IF j > Len(data) THEN U_not_i
    ELSE IF i = j THEN CatchAllLoop(data, priors, weightDenominator, i, j + 1, U_not_i)
    ELSE CatchAllLoop(data, priors, weightDenominator, i, j + 1,
             RAdd(U_not_i, RMul(Weight(priors[j].val, weightDenominator), data[j].U_i)))

\* faulty variant: 0.01 is substituted instead of 0.001
SafeUNotI_Hundredth(U_not_i) == IF U_not_i = Num(0) THEN << 1, 100 >> ELSE U_not_i

\* faulty variant: no guard against a zero catch-all
SafeUNotI_Unguarded(U_not_i) == U_not_i

\* const safe_U_not_i = U_not_i === 0 ? 0.001 : U_not_i
SafeUNotI(U_not_i) == IF U_not_i = Num(0) THEN LRMin ELSE U_not_i

\* faulty variant: the upper bound is not applied
ClampLR_NoUpperBound(LR) == RMax(LR, LRMin)

\* LR = Math.min(Math.max(LR, 0.001), 1000)
ClampLR(LR) == RMin(RMax(LR, LRMin), LRMax)

\* the record pushed when weightDenominator <= 0.0001
NearCertainResult(currentH, P_Hi) ==
    [hypothesis_id |-> currentH.hypothesis_id,
     prior_P_H |-> P_Hi,
     likelihood_P_E_H |-> currentH.U_i,
     catchall_P_E_NotH |-> Num(0),
     LR |-> Neutral]

\* faulty variant: the ratio is taken the wrong way round
NormalResult_InvertedRatio(currentH, P_Hi, U_not_i) ==
    [hypothesis_id |-> currentH.hypothesis_id,
     prior_P_H |-> P_Hi,
     likelihood_P_E_H |-> currentH.U_i,
     catchall_P_E_NotH |-> U_not_i,
     LR |-> RMin(RMax(RDiv(IF U_not_i = Num(0) THEN LRMin ELSE U_not_i, currentH.U_i),
                      LRMin), LRMax)]

\* the record pushed at the end of the loop body
NormalResult(currentH, P_Hi, U_not_i) ==
    [hypothesis_id |-> currentH.hypothesis_id,
     prior_P_H |-> P_Hi,
     likelihood_P_E_H |-> currentH.U_i,
     catchall_P_E_NotH |-> U_not_i,
     LR |-> ClampLR(RDiv(currentH.U_i, SafeUNotI(U_not_i)))]

\* faulty variant: no short-circuit for a near-certain prior
ScoreHypothesis_NoGuard(data, priors, i) ==
    LET weightDenominator == RSub(Num(1), priors[i].val)
        U_not_i ==
            CatchAllLoop(data, priors, weightDenominator, i, 1, Num(0))
    IN  [hypothesis_id |-> data[i].hypothesis_id,
         prior_P_H |-> priors[i].val,
         likelihood_P_E_H |-> data[i].U_i,
         catchall_P_E_NotH |-> U_not_i,
         LR |-> RMin(RMax(RDiv(data[i].U_i, IF U_not_i = Num(0) THEN LRMin ELSE U_not_i),
                          LRMin), LRMax)]

\* one pass of the body of for (i = 0; i < M; i++): the record it pushes
ScoreHypothesis(data, priors, i) ==
    LET currentH == data[i]
        P_Hi == priors[i].val
        weightDenominator == WeightDenominator(P_Hi)
    IN  IF IsNearCertain(weightDenominator)
        THEN NearCertainResult(currentH, P_Hi)
        ELSE NormalResult(currentH, P_Hi,
                 CatchAllLoop(data, priors, weightDenominator, i, 1, Num(0)))

\* faulty variant: the near-certain branch continues without pushing a record
RECURSIVE ScoreLoop_SkipsNearCertain(_, _, _, _)
ScoreLoop_SkipsNearCertain(data, priors, i, res) ==
    IF i > Len(data) THEN res
    ELSE IF RLeq(RSub(Num(1), priors[i].val), << 1, 10000 >>)
         THEN ScoreLoop_SkipsNearCertain(data, priors, i + 1, res)
    ELSE ScoreLoop_SkipsNearCertain(data, priors, i + 1,
             Append(res, ScoreHypothesis(data, priors, i)))

\* for (i = 0; i < M; i++) { ... results.push(...) }
RECURSIVE ScoreLoop(_, _, _, _)
ScoreLoop(data, priors, i, res) ==
    IF i > Len(data) THEN res
    ELSE ScoreLoop(data, priors, i + 1, Append(res, ScoreHypothesis(data, priors, i)))

processBayesianConfirmation(data) ==
    ScoreLoop(data, Priors(data, SafeSumQ(SumQ(data))), 1, << >>)

(***************************************************************************)
(* The states in which no report is held and no Scorer call is under way.  *)
(***************************************************************************)
NoReport == [hypotheses |-> << >>, evidence_clusters |-> << >>]

ReportIdle ==
    /\ report = NoReport
    /\ scores = << >>
    /\ radarData = << >>
    /\ scoringResponse = [outcome |-> "none"]
    /\ pdfScores = << >>

ScorerIdle ==
    /\ analysisData = << >>
    /\ results = << >>
    /\ precision = 0

\* no call of generateWithRetry, no App and no chat
RetryIdle ==
    /\ retries = 0
    /\ delay = 0
    /\ attempts = << >>
    /\ waits = << >>
    /\ outcome = [kind |-> "none"]

\* the value null
Null == [null |-> TRUE]

AppIdle ==
    /\ phase = "none"
    /\ topic = << >>
    /\ error = ""
    /\ history = << >>
    /\ user = Null
    /\ showHistory = FALSE
    /\ analyzeCalls = << >>

ChatIdle ==
    /\ chatHistory = << >>
    /\ chatInput = << >>
    /\ chatLoading = FALSE
    /\ chatCalls = << >>

UiIdle == RetryIdle /\ AppIdle /\ ChatIdle

(***************************************************************************)
(* The judgment lists the Scorer is applied to.                            *)
(***************************************************************************)
\* the Q values a judgment may carry: -1, 0, 1, 2, 9999
QValues == { Num(-1), Num(0), Num(1), Num(2), Num(9999) }

\* the U values a judgment may carry: 0, 1, 5
UValues == { Num(0), Num(1), Num(5) }

HypothesisIds == << "H1", "H2", "H3", "H4", "H5" >>

\* the judgment list with the ids H1..HM and the (Q, U) pairs qu[1..M]
JudgmentList(qu) ==
    [k \in DOMAIN qu |->
        [hypothesis_id |-> HypothesisIds[k], Q_i |-> qu[k][1], U_i |-> qu[k][2]]]

(***************************************************************************)
(* The Scorer as a state machine: a caller holds a judgment list and       *)
(* calls processBayesianConfirmation on it.                                *)
(***************************************************************************)
ScorerInit ==
    /\ \E M \in 0..MaxM :
          \E qu \in [1..M -> QValues \X UValues] : analysisData = JudgmentList(qu)
    /\ results = << >>
    /\ pc = "call"
    /\ precision = 0
    /\ ReportIdle
    /\ UiIdle

Score ==
    /\ pc = "call"
    /\ results' = processBayesianConfirmation(analysisData)
    /\ pc' = "returned"
    /\ UNCHANGED << analysisData, precision, reportVars, uiVars >>

ScorerNext == Score

ScorerSpec == ScorerInit /\ [][ScorerNext]_vars

(***************************************************************************)
(* The Scorer on arbitrary finite numbers: negative values and magnitudes  *)
(* close to the largest finite number.                                     *)
(***************************************************************************)
\* a finite number close to Number.MAX_VALUE (as 1.35e308 is)
Huge == << (3 * MaxNumber) \div 4, 1 >>

ExtremeQValues == { Num(-1), Num(0), Num(1), Num(2) }

ExtremeUValues == { RNeg(Huge), Num(-1), Num(0), Num(1), Huge }

ExtremeInit ==
    /\ \E n \in 0..MaxM :
          \E qu \in [1..n -> ExtremeQValues \X ExtremeUValues] :
              analysisData = JudgmentList(qu)
    /\ results = << >>
    /\ pc = "call"
    /\ precision = 0
    /\ ReportIdle
    /\ UiIdle

ExtremeSpec == ExtremeInit /\ [][ScorerNext]_vars

(***************************************************************************)
(* The Scorer in rounded arithmetic, on lists in which one Q dominates the *)
(* sum, so that the prior of its hypothesis lies next to the near-certain  *)
(* threshold.                                                              *)
(***************************************************************************)
\* a Q whose prior is within a rounding step of 0.9999 when the other Q add
\* up to about 2
DominantQ == << 2 ^ SignificandBits - 2, 1 >>

RoundedQValues == { DominantQ, << 1, 2 >>, Num(1) }

RoundedUValues == { << 1, 2 >>, Num(1) }

RoundedInit ==
    /\ \E n \in 0..MaxM :
          \E qu \in [1..n -> RoundedQValues \X RoundedUValues] :
              analysisData = JudgmentList(qu)
    /\ results = << >>
    /\ pc = "call"
    /\ precision = SignificandBits
    /\ ReportIdle
    /\ UiIdle

RoundedSpec == RoundedInit /\ [][ScorerNext]_vars

(***************************************************************************)
(* The Combiner: the cumulative score of every hypothesis over the         *)
(* clusters of a report, as chatWithAnalyst (part_000) and the report view *)
(* (radarData, part_001) compute it.  An lrs map is a function from the    *)
(* hypothesis ids it has entries for to numbers.                           *)
(***************************************************************************)
\* the value of a missing property
Undefined == << >>

\* faulty variant: x || 0
OrOne_OrZero(x) ==
    IF x = Undefined THEN Num(0)
    ELSE IF x = Num(0) \/ IsNaN(x) THEN Num(0)
    ELSE x

\* x || 1: 1 if x is undefined, 0 or NaN, else x
OrOne(x) ==
    IF x = Undefined THEN Num(1)
    ELSE IF x = Num(0) \/ IsNaN(x) THEN Num(1)
    ELSE x

\* obj[key]
Get(obj, key) == IF key \in DOMAIN obj THEN obj[key] ELSE Undefined

\* Object.entries(cluster.lrs).forEach(([hId, val]) =>
\*     scores[hId] = (scores[hId] || 1) * val)
ChatCluster(sc, lrs) ==
    [hId \in (DOMAIN sc) \cup (DOMAIN lrs) |->
        IF hId \in DOMAIN lrs THEN RMul(OrOne(Get(sc, hId)), lrs[hId])
        ELSE sc[hId]]

\* context.evidence_clusters.forEach(cluster => ...), from cluster k on
RECURSIVE ChatLoop(_, _, _)
ChatLoop(clusters, k, sc) ==
    IF k > Len(clusters) THEN sc
    ELSE ChatLoop(clusters, k + 1, ChatCluster(sc, clusters[k].lrs))

\* const scores = {}; ...forEach...
ChatScores(clusters) == ChatLoop(clusters, 1, << >>)

\* report.evidence_clusters.forEach(cluster => {
\*     const lr = cluster.lrs[h.id] || 1; score *= lr }), from cluster k on
RECURSIVE RadarLoop(_, _, _, _)
RadarLoop(clusters, hId, k, score) ==
    IF k > Len(clusters) THEN score
    ELSE RadarLoop(clusters, hId, k + 1,
             RMul(score, OrOne(Get(clusters[k].lrs, hId))))

\* report.hypotheses.map(h => { let score = 1; ...; return { subject: h.id,
\* rawScore: score } }); fullTitle and the log-scaled display value A are
\* left out
RadarData(rep) ==
    [n \in 1..Len(rep.hypotheses) |->
        [subject |-> rep.hypotheses[n],
         rawScore |-> RadarLoop(rep.evidence_clusters, rep.hypotheses[n], 1, Num(1))]]

\* Number.prototype.toFixed(digits), as the number the printed text
\* denotes: the nearest multiple of 10^-digits, the larger one of two
\* nearest; Infinity and NaN are printed as such
ToFixed(x, digits) ==
    IF ~IsFinite(x) THEN x
    ELSE LET scale == 10 ^ digits
             n == (2 * Abs(x[1]) * scale + x[2]) \div (2 * x[2])
         IN  Rat(Sign(x[1]) * n, scale)

\* handleGeneratePDF, executive summary: report.evidence_clusters.forEach(
\*     cluster => { const lr = cluster.lrs[h.id] || 1; score *= lr }), from
\* cluster k on
RECURSIVE PdfLoop(_, _, _, _)
PdfLoop(clusters, hId, k, score) ==
    IF k > Len(clusters) THEN score
    ELSE PdfLoop(clusters, hId, k + 1,
             RMul(score, OrOne(Get(clusters[k].lrs, hId))))

\* report.hypotheses.forEach(h => { let score = 1; ...;
\*     addText(`${h.id}: ${score.toFixed(2)} - ${h.title}`) }): the lines of
\* the summary, without the titles
PdfScores(rep) ==
    [n \in 1..Len(rep.hypotheses) |->
        [id |-> rep.hypotheses[n],
         score |-> ToFixed(PdfLoop(rep.evidence_clusters, rep.hypotheses[n], 1, Num(1)), 2)]]

\* the hypotheses of a displayed report
ReportHypotheses == << "H1", "H2" >>

\* the LR values a stored report may hold: 0, 0.5, 1 and 4
LRValues == { Num(0), << 1, 2 >>, Num(1), Num(4) }

\* the lrs maps: any subset of the hypotheses, any values
LrsMaps ==
    UNION { [ids -> LRValues] :
            ids \in SUBSET { ReportHypotheses[n] : n \in 1..Len(ReportHypotheses) } }

ClusterIds == << "c1", "c2", "c3", "c4" >>

\* a report on display: loaded from history or returned by analyzeTopic
CombinerInit ==
    /\ \E n \in 0..MaxClusters :
          \E maps \in [1..n -> LrsMaps] :
              report = [hypotheses |-> ReportHypotheses,
                        evidence_clusters |->
                            [k \in 1..n |-> [id |-> ClusterIds[k], lrs |-> maps[k]]]]
    /\ scores = << >>
    /\ radarData = << >>
    /\ pdfScores = << >>
    /\ scoringResponse = [outcome |-> "none"]
    /\ pc = "mounted"
    /\ ScorerIdle
    /\ UiIdle

\* the report view renders: radarData is recomputed from the report
Render ==
    /\ pc \in { "mounted", "chatted" }
    /\ radarData' = RadarData(report)
    /\ pc' = "REPORT"
    /\ UNCHANGED << report, scores, scoringResponse, scorerVars, pdfScores, uiVars >>

\* the analyst sends a message: chatWithAnalyst computes scores for the
\* prompt (with API_KEY set; without it the call throws before line 569);
\* the chat history then changes and the view renders again
ChatWithAnalyst ==
    /\ pc = "REPORT"
    /\ scores' = ChatScores(report.evidence_clusters)
    /\ pc' = "chatted"
    /\ UNCHANGED << report, radarData, scoringResponse, scorerVars, pdfScores, uiVars >>

\* the button 'Download PDF' of the rendered view: the executive summary
\* of the document is computed from the report
handleGeneratePDF ==
    /\ pc = "REPORT"
    /\ pdfScores' = PdfScores(report)
    /\ UNCHANGED << report, scores, radarData, scoringResponse, pc, scorerVars, uiVars >>

CombinerNext == Render \/ ChatWithAnalyst \/ handleGeneratePDF

CombinerSpec == CombinerInit /\ [][CombinerNext]_vars

(***************************************************************************)
(* The scoring phase of analyzeTopic (part_000, step 3): the report built  *)
(* by the structuring phase is updated in place from the response of the   *)
(* scoring request.  An object that holds an lrs map is modelled by two    *)
(* fields: lrs, the content of the map, and lrsObj, the identity of the    *)
(* object.  A cluster has the field stats once cluster.stats is assigned.  *)
(***************************************************************************)
\* generateWithRetry(callFn, retries = 3, ...)
Retries == 3

\* the analysis lists of a scoring response: the scenario H1 {Q 2, U 5},
\* H2 {Q 1, U 1}, and three hypotheses of which the last is impossible
AnalysisA == JudgmentList([n \in 1..2 |->
                 IF n = 1 THEN << Num(2), Num(5) >> ELSE << Num(1), Num(1) >>])

AnalysisB == JudgmentList([n \in 1..3 |->
                 IF n = 1 THEN << Num(1), Num(1) >>
                 ELSE IF n = 2 THEN << Num(2), Num(5) >>
                 ELSE << Num(1), Num(0) >>])

\* what the analysis property of a cluster of the response may be: absent,
\* a value on which processBayesianConfirmation throws (not an array, or
\* an array with a null entry), or a judgment list
Analyses ==
    { [kind |-> "missing"], [kind |-> "malformed"] }
        \cup { [kind |-> "list", judgments |-> j] : j \in { << >>, AnalysisA, AnalysisB } }

\* the cluster ids a response names: those of the report, which the
\* scoring prompt lists
ResponseClusterIds(rep) ==
    { rep.evidence_clusters[k].id : k \in 1..Len(rep.evidence_clusters) }

\* the identity of the lrs object of a cluster, and of the object that item
\* j of a cluster holds: the {} of the structuring phase (generation 0) or
\* the copy made by the scoring phase (generation 1)
ClusterLrsObj(cid) == << cid >>

ItemLrsObj(cid, j, generation) == << cid, j, generation >>

\* faulty variant: the item is given the cluster's own map object
SpreadLrs_Aliased(cluster, j) ==
    [lrs |-> cluster.lrs, lrsObj |-> cluster.lrsObj]

\* item.lrs = { ...cluster.lrs }: a new object with the cluster's entries
SpreadLrs(cluster, j) ==
    [lrs |-> cluster.lrs, lrsObj |-> ItemLrsObj(cluster.id, j, 1)]

\* mathResults.forEach(res => { cluster.lrs[res.hypothesis_id] = res.LR;
\* cluster.stats[res.hypothesis_id] = {...} }), from result n on
RECURSIVE WriteResults(_, _, _)
WriteResults(cluster, mathResults, n) ==
    IF n > Len(mathResults) THEN cluster
    ELSE LET res == mathResults[n]
             hId == res.hypothesis_id
             entry == [h_id |-> hId,
                       p_h |-> res.prior_P_H,
                       p_e_h |-> res.likelihood_P_E_H,
                       p_e_not_h |-> res.catchall_P_E_NotH,
                       lr |-> res.LR]
         IN  WriteResults(
                 [cluster EXCEPT
                     !.lrs = [h \in (DOMAIN @) \cup { hId } |->
                                 IF h = hId THEN res.LR ELSE @[h]],
                     !.stats = [h \in (DOMAIN @) \cup { hId } |->
                                 IF h = hId THEN entry ELSE @[h]]],
                 mathResults, n + 1)

\* the body of if (clusterAnalysis && clusterAnalysis.analysis): stats
\* reset, results written, every item given a copy of the cluster's lrs
ApplyAnalysis(cluster, judgments) ==
    LET mathResults == processBayesianConfirmation(judgments)
        written == WriteResults(
                       [id |-> cluster.id, lrs |-> cluster.lrs,
                        lrsObj |-> cluster.lrsObj, stats |-> << >>,
                        items |-> cluster.items],
                       mathResults, 1)
    IN  [written EXCEPT
            !.items = [j \in 1..Len(@) |->
                          [id |-> @[j].id,
                           lrs |-> SpreadLrs(written, j).lrs,
                           lrsObj |-> SpreadLrs(written, j).lrsObj]]]

\* faulty variant: the response's clusters are taken to answer the report's
\* clusters in order, whatever their cluster_id
FindAnalysis_First(analyses, cid) ==
    IF analyses = << >> THEN [kind |-> "missing"] ELSE analyses[1].analysis

\* scoringData.clusters.find(c => c.cluster_id === cluster.id) and its
\* analysis; "missing" if no cluster matches or the match has no analysis
FindAnalysis(analyses, cid) ==
    LET matches == { n \in 1..Len(analyses) : analyses[n].cluster_id = cid }
    IN  IF matches = {} THEN [kind |-> "missing"]
        ELSE analyses[CHOOSE n \in matches : \A o \in matches : n <= o].analysis

\* initialReport.evidence_clusters.forEach(cluster => ...), from cluster k
\* on; the exception of processBayesianConfirmation ends the loop
RECURSIVE ScoreClusters(_, _, _)
ScoreClusters(clusters, analyses, k) ==
    IF k > Len(clusters) THEN clusters
    ELSE LET clusterAnalysis == FindAnalysis(analyses, clusters[k].id)
         IN  IF clusterAnalysis.kind = "missing"
             THEN ScoreClusters(clusters, analyses, k + 1)
             ELSE IF clusterAnalysis.kind = "malformed" THEN clusters
             ELSE ScoreClusters(
                      [clusters EXCEPT ![k] = ApplyAnalysis(@, clusterAnalysis.judgments)],
                      analyses, k + 1)

\* the placeholder maps of the structuring phase: 1.0 for every
\* hypothesis_id of lrs_array, if there is one
Placeholders ==
    { << >>, [hId \in { ReportHypotheses[n] : n \in 1..Len(ReportHypotheses) } |-> Num(1)] }

\* cluster k as the structuring phase builds it, with k items
InitialCluster(k, placeholder) ==
    [id |-> ClusterIds[k],
     lrs |-> placeholder,
     lrsObj |-> ClusterLrsObj(ClusterIds[k]),
     items |-> [j \in 1..k |->
                   [id |-> << ClusterIds[k], j >>,
                    lrs |-> << >>,
                    lrsObj |-> ItemLrsObj(ClusterIds[k], j, 0)]]]

\* initialReport after the structuring phase, the scoring request sent
AnalyzeInit ==
    /\ \E n \in 0..MaxClusters :
          \E ph \in [1..n -> Placeholders] :
              report = [hypotheses |-> ReportHypotheses,
                        evidence_clusters |-> [k \in 1..n |-> InitialCluster(k, ph[k])]]
    /\ scoringResponse = [outcome |-> "pending", retries |-> Retries]
    /\ scores = << >>
    /\ radarData = << >>
    /\ pdfScores = << >>
    /\ pc = "scoring"
    /\ ScorerIdle
    /\ UiIdle

\* generateWithRetry: the request fails with a retryable error and is sent
\* again
RetryScoring ==
    /\ pc = "scoring"
    /\ scoringResponse.retries > 0
    /\ scoringResponse' = [scoringResponse EXCEPT !.retries = @ - 1]
    /\ UNCHANGED << report, scores, radarData, pc, scorerVars, pdfScores, uiVars >>

\* generateWithRetry throws (an error that is not retryable, or no retries
\* left): the catch logs it and analyzeTopic returns initialReport
ScoringRejects ==
    /\ pc = "scoring"
    /\ scoringResponse' = [outcome |-> "rejected"]
    /\ pc' = "resolved"
    /\ UNCHANGED << report, scores, radarData, scorerVars, pdfScores, uiVars >>

\* the response text is not valid JSON: JSON.parse throws, the catch logs it
ScoringUnparsable ==
    /\ pc = "scoring"
    /\ scoringResponse' = [outcome |-> "invalid"]
    /\ pc' = "resolved"
    /\ UNCHANGED << report, scores, radarData, scorerVars, pdfScores, uiVars >>

\* the response parses to an object without clusters (an empty text is
\* parsed as {}): nothing is applied
ScoringWithoutClusters ==
    /\ pc = "scoring"
    /\ scoringResponse' = [outcome |-> "parsed"]
    /\ pc' = "resolved"
    /\ UNCHANGED << report, scores, radarData, scorerVars, pdfScores, uiVars >>

\* the response parses to scoringData with clusters: the math is applied
\* cluster by cluster, up to the end or to the first exception
ScoringApplied ==
    /\ pc = "scoring"
    /\ \E n \in 0..MaxAnalyses :
          \E cs \in [1..n -> ResponseClusterIds(report) \X Analyses] :
              LET clusters == [m \in 1..n |->
                                  [cluster_id |-> cs[m][1], analysis |-> cs[m][2]]]
              IN  /\ scoringResponse' = [outcome |-> "parsed", clusters |-> clusters]
                  /\ report' = [report EXCEPT !.evidence_clusters =
                                    ScoreClusters(@, clusters, 1)]
    /\ pc' = "resolved"
    /\ UNCHANGED << scores, radarData, scorerVars, pdfScores, uiVars >>

AnalyzeNext ==
    \/ RetryScoring
    \/ ScoringRejects
    \/ ScoringUnparsable
    \/ ScoringWithoutClusters
    \/ ScoringApplied

AnalyzeSpec == AnalyzeInit /\ [][AnalyzeNext]_vars

(***************************************************************************)
(* generateWithRetry: a call of callFn, retried after a retryable failure. *)
(* A message is the sequence of its characters, a rejection of callFn is   *)
(* an error object with a status (0 when it has none) and a message.       *)
(***************************************************************************)
\* the default of the parameter delay, in milliseconds
InitialDelay == 2000

\* String.prototype.includes: needle occurs in text at some position
Includes(text, needle) ==
    \E i \in 0..(Len(text) - Len(needle)) :
        \A j \in 1..Len(needle) : text[i + j] = needle[j]

Text429 == << "4", "2", "9" >>

Text503 == << "5", "0", "3" >>

TextExhausted == << "R", "e", "s", "o", "u", "r", "c", "e", " ", "h", "a", "s", " ", "b", "e", "e", "n", " ", "e", "x", "h", "a", "u", "s", "t", "e", "d" >>

\* the test of the catch block: the status, or else the message
isRetryable_Always(e) == TRUE

isRetryable(e) ==
    \/ e.status = 429
    \/ e.status = 503
    \/ /\ e.message # << >>
       /\ \/ Includes(e.message, Text429)
          \/ Includes(e.message, Text503)
          \/ Includes(e.message, TextExhausted)

\* the delay handed to the recursive call
NextDelay_Unchanged(d) == d

NextDelay(d) == d * 2

\* what callFn may settle with: the values a model call resolves with and
\* the errors it rejects with
CallValues == { "response", "" }

CallErrors ==
    { [status |-> 429, message |-> << "T", "o", "o", " ", "M", "a", "n", "y", " ", "R", "e", "q", "u", "e", "s", "t", "s" >>],
      [status |-> 503, message |-> << >>],
      [status |-> 500, message |-> << "I", "n", "t", "e", "r", "n", "a", "l", " ", "e", "r", "r", "o", "r" >>],
      [status |-> 400, message |-> << "g", "o", "t", " ", "1", "4", "2", "9", "0", " ", "t", "o", "k", "e", "n", "s" >>],
      [status |-> 0, message |-> << "c", "o", "d", "e", " ", "5", "0", "3" >>],
      [status |-> 0, message |-> << "R", "e", "s", "o", "u", "r", "c", "e", " ", "h", "a", "s", " ", "b", "e", "e", "n", " ", "e", "x", "h", "a", "u", "s", "t", "e", "d", " ", "(", "q", "u", "o", "t", "a", ")" >>],
      [status |-> 0, message |-> << "R", "e", "s", "o", "u", "r", "c", "e", " ", "e", "x", "h", "a", "u", "s", "t", "e", "d" >>],
      [status |-> 0, message |-> << >>] }

Pending == [kind |-> "pending"]

\* generateWithRetry(callFn): the defaults, and callFn invoked
RetryInit ==
    /\ retries = Retries
    /\ delay = InitialDelay
    /\ attempts = << Pending >>
    /\ waits = << >>
    /\ outcome = [kind |-> "none"]
    /\ pc = "calling"
    /\ ScorerIdle
    /\ ReportIdle
    /\ AppIdle
    /\ ChatIdle

\* callFn resolves: its value is returned
CallResolves ==
    /\ pc = "calling"
    /\ \E v \in CallValues :
          /\ attempts' = [attempts EXCEPT ![Len(attempts)] = [kind |-> "value", value |-> v]]
          /\ outcome' = [kind |-> "value", value |-> v]
    /\ pc' = "settled"
    /\ UNCHANGED << retries, delay, waits, scorerVars, reportVars, appVars, chatVars >>

\* callFn rejects: the catch block waits for the timer or rethrows
CallRejects ==
    /\ pc = "calling"
    /\ \E e \in CallErrors :
          /\ attempts' = [attempts EXCEPT ![Len(attempts)] = [kind |-> "error", error |-> e]]
          /\ IF retries > 0 /\ isRetryable(e)
             THEN /\ waits' = Append(waits, delay)
                  /\ pc' = "waiting"
                  /\ UNCHANGED outcome
             ELSE /\ outcome' = [kind |-> "error", error |-> e]
                  /\ pc' = "settled"
                  /\ UNCHANGED waits
    /\ UNCHANGED << retries, delay, scorerVars, reportVars, appVars, chatVars >>

\* the timer fires: the recursive call invokes callFn again
TimerFires ==
    /\ pc = "waiting"
    /\ retries' = retries - 1
    /\ delay' = NextDelay(delay)
    /\ attempts' = Append(attempts, Pending)
    /\ pc' = "calling"
    /\ UNCHANGED << waits, outcome, scorerVars, reportVars, appVars, chatVars >>

RetryNext == CallResolves \/ CallRejects \/ TimerFires

RetrySpec == RetryInit /\ [][RetryNext]_vars

\* every invocation of callFn settles and every timer fires
RetryFairSpec ==
    RetrySpec /\ WF_vars(CallResolves \/ CallRejects) /\ WF_vars(TimerFires)

(***************************************************************************)
(* The App component: its state, its handlers and the analyzeTopic calls   *)
(* it awaits.  A text is the sequence of its characters.  A report is      *)
(* identified by the call that returned it; a report read from the stored  *)
(* history has a call number below 1.  Each handler runs to its first      *)
(* await; the continuation of handleAnalyze runs when analyzeTopic         *)
(* settles.                                                                *)
(***************************************************************************)
\* the most analyzeTopic calls of a session
MaxSubmits == 2

\* slice(0, 10): the length of the history kept
HistoryLimit == 10

\* the lengths of the history read from localStorage on mount
StoredLengths == { 0, 1, HistoryLimit }

\* what is typed into the topic field
Topics == { << >>, << " " >>, << "w", "h", "y" >> }

\* what is typed into the login field
Usernames == { << " " >>, << "a", "n", "n" >> }

\* !text.trim(): the text is empty or holds white space only
IsBlank_EmptyOnly(text) == text = << >>

IsBlank(text) == \A i \in 1..Len(text) : text[i] = " "

\* the errors analyzeTopic rejects with, and an error without a message
AnalyzeErrors == { [message |-> "API Key is missing"], [message |-> ""] }

\* err.message || 'An unknown error occurred.'
ErrorMessage(err) ==
    IF err.message # "" THEN err.message ELSE "An unknown error occurred."

\* [result, ...prev].slice(0, 10)
AddToHistory_Unbounded(result, prev) == << result >> \o prev

AddToHistory(result, prev) ==
    SubSeq(<< result >> \o prev, 1,
           IF Len(prev) + 1 < HistoryLimit THEN Len(prev) + 1 ELSE HistoryLimit)

\* the report of the stored history at index k, the most recent at index 1
StoredReport(k) == [original_query |-> << "o", "l", "d" >>, call |-> 1 - k]

\* the analyzeTopic calls that have not settled
PendingCalls == { i \in 1..Len(analyzeCalls) : analyzeCalls[i].status = "pending" }

ResolvedCalls == { i \in 1..Len(analyzeCalls) : analyzeCalls[i].status = "resolved" }

\* the App after its mount effects: history and user read from localStorage
AppInit ==
    /\ phase = "INPUT"
    /\ topic = << >>
    /\ report = Null
    /\ error = ""
    /\ \E n \in StoredLengths : history = [k \in 1..n |-> StoredReport(k)]
    /\ user \in { Null, [name |-> << "a", "n", "n" >>] }
    /\ showHistory = FALSE
    /\ analyzeCalls = << >>
    /\ pc = "app"
    /\ scores = << >>
    /\ radarData = << >>
    /\ scoringResponse = [outcome |-> "none"]
    /\ pdfScores = << >>
    /\ ScorerIdle
    /\ RetryIdle
    /\ ChatIdle

AppFrame == UNCHANGED << scores, radarData, scoringResponse, pdfScores, pc,
                         scorerVars, retryVars, chatVars >>

\* the topic field, rendered in phase INPUT
SetTopic ==
    /\ phase = "INPUT"
    /\ \E t \in Topics : topic' = t
    /\ UNCHANGED << phase, report, error, history, user, showHistory, analyzeCalls >>
    /\ AppFrame

\* handleAnalyze up to its await; the form is rendered in phase INPUT
handleAnalyze ==
    /\ phase = "INPUT"
    /\ Len(analyzeCalls) < MaxSubmits
    /\ IF IsBlank(topic)
       THEN UNCHANGED << phase, error, analyzeCalls >>
       ELSE /\ phase' = "LOADING"
            /\ error' = ""
            /\ analyzeCalls' = Append(analyzeCalls, [topic |-> topic, status |-> "pending"])
    /\ UNCHANGED << topic, report, history, user, showHistory >>
    /\ AppFrame

\* analyzeTopic resolves: the try block of handleAnalyze continues
AnalyzeResolves ==
    /\ \E i \in PendingCalls :
          LET result == [original_query |-> analyzeCalls[i].topic, call |-> i]
          IN  /\ report' = result
              /\ phase' = "REPORT"
              /\ history' = AddToHistory(result, history)
              /\ analyzeCalls' =
                     [analyzeCalls EXCEPT ![i] =
                         [topic |-> analyzeCalls[i].topic, status |-> "resolved",
                          rank |-> Cardinality(ResolvedCalls) + 1]]
    /\ UNCHANGED << topic, error, user, showHistory >>
    /\ AppFrame

\* analyzeTopic rejects: the catch block of handleAnalyze
AnalyzeRejects ==
    /\ \E i \in PendingCalls :
          \E err \in AnalyzeErrors :
              /\ error' = ErrorMessage(err)
              /\ phase' = "ERROR"
              /\ analyzeCalls' =
                     [analyzeCalls EXCEPT ![i] = [topic |-> analyzeCalls[i].topic, status |-> "rejected"]]
    /\ UNCHANGED << topic, report, history, user, showHistory >>
    /\ AppFrame

\* the button 'New Analysis', rendered for a user outside phase INPUT
NewAnalysis_KeepsPhase ==
    /\ user # Null
    /\ phase # "INPUT"
    /\ report' = Null
    /\ UNCHANGED << phase, topic, error, history, user, showHistory, analyzeCalls >>
    /\ AppFrame

NewAnalysis ==
    /\ user # Null
    /\ phase # "INPUT"
    /\ phase' = "INPUT"
    /\ report' = Null
    /\ UNCHANGED << topic, error, history, user, showHistory, analyzeCalls >>
    /\ AppFrame

\* the button 'Try Again' of the error view
TryAgain ==
    /\ phase = "ERROR"
    /\ phase' = "INPUT"
    /\ UNCHANGED << topic, report, error, history, user, showHistory, analyzeCalls >>
    /\ AppFrame

\* the menu button opens the history sidebar, its chevron closes it
ToggleHistory ==
    /\ showHistory' = ~showHistory
    /\ UNCHANGED << phase, topic, report, error, history, user, analyzeCalls >>
    /\ AppFrame

\* an entry of the open sidebar is clicked
loadFromHistory ==
    /\ showHistory
    /\ \E k \in 1..Len(history) : report' = history[k]
    /\ phase' = "REPORT"
    /\ showHistory' = FALSE
    /\ UNCHANGED << topic, error, history, user, analyzeCalls >>
    /\ AppFrame

\* the login form, opened by the button rendered when there is no user
handleLogin ==
    /\ user = Null
    /\ \E usernameInput \in Usernames :
          IF ~IsBlank(usernameInput)
          THEN user' = [name |-> usernameInput]
          ELSE UNCHANGED user
    /\ UNCHANGED << phase, topic, report, error, history, showHistory, analyzeCalls >>
    /\ AppFrame

\* the button 'Sign Out' of the open sidebar, rendered for a user
handleLogout ==
    /\ showHistory
    /\ user # Null
    /\ user' = Null
    /\ history' = << >>
    /\ UNCHANGED << phase, topic, report, error, showHistory, analyzeCalls >>
    /\ AppFrame

AppNext ==
    \/ SetTopic
    \/ handleAnalyze
    \/ AnalyzeResolves
    \/ AnalyzeRejects
    \/ NewAnalysis
    \/ TryAgain
    \/ ToggleHistory
    \/ loadFromHistory
    \/ handleLogin
    \/ handleLogout

AppSpec == AppInit /\ [][AppNext]_vars

(***************************************************************************)
(* The chat of AnalysisReportView: handleChatSubmit up to its await, and   *)
(* its continuation when chatWithAnalyst settles.  The continuation uses   *)
(* the newHistory the handler built before the await.                      *)
(***************************************************************************)
\* the most messages submitted to the chat
MaxChats == 2

\* what is typed into the chat field
ChatTexts == { << " " >>, << "q", "1" >>, << "q", "2" >> }

\* what chatWithAnalyst resolves with
ChatResponses == { << >>, << "o", "k" >> }

\* response || "I couldn't generate a response."
ReplyText(response) ==
    IF response # << >> THEN response ELSE << "I", " ", "c", "o", "u", "l", "d", "n", "'", "t", " ", "g", "e", "n", "e", "r", "a", "t", "e", " ", "a", " ", "r", "e", "s", "p", "o", "n", "s", "e", "." >>

UserMsg(query) == [role |-> "user", text |-> query]

ModelMsg(text) == [role |-> "model", text |-> text]

\* the two chat forms: the submit button of the main form is disabled
\* while chatLoading, the one of the floating form is not
ChatForms == { "main", "floating" }

PendingChats == { i \in 1..Len(chatCalls) : chatCalls[i].status = "pending" }

\* the report view is mounted
ChatInit ==
    /\ chatHistory = << >>
    /\ chatInput = << >>
    /\ chatLoading = FALSE
    /\ chatCalls = << >>
    /\ pc = "chat"
    /\ ScorerIdle
    /\ ReportIdle
    /\ RetryIdle
    /\ AppIdle

ChatFrame == UNCHANGED << pc, scorerVars, reportVars, retryVars, appVars >>

\* the chat field of either form
SetChatInput ==
    /\ \E t \in ChatTexts : chatInput' = t
    /\ UNCHANGED << chatHistory, chatLoading, chatCalls >>
    /\ ChatFrame

\* handleChatSubmit up to its await
handleChatSubmit ==
    /\ Len(chatCalls) < MaxChats
    /\ \E form \in ChatForms : form = "main" => ~chatLoading
    /\ LET query == chatInput
           newHistory == Append(chatHistory, UserMsg(query))
       IN  IF IsBlank(query)
           THEN UNCHANGED << chatHistory, chatInput, chatLoading, chatCalls >>
           ELSE /\ chatHistory' = newHistory
                /\ chatInput' = << >>
                /\ chatLoading' = TRUE
                /\ chatCalls' = Append(chatCalls,
                       [query |-> query, newHistory |-> newHistory, status |-> "pending"])
    /\ ChatFrame

\* chatWithAnalyst resolves: the try block continues, then the finally block
ChatResolves ==
    /\ \E i \in PendingChats :
          \E response \in ChatResponses :
              /\ chatHistory' = Append(chatCalls[i].newHistory, ModelMsg(ReplyText(response)))
              /\ chatCalls' = [chatCalls EXCEPT ![i] =
                                  [query |-> chatCalls[i].query, newHistory |-> chatCalls[i].newHistory,
                                   status |-> "resolved", reply |-> ReplyText(response)]]
    /\ chatLoading' = FALSE
    /\ UNCHANGED chatInput
    /\ ChatFrame

\* chatWithAnalyst rejects: the error is logged, then the finally block
ChatRejects ==
    /\ \E i \in PendingChats :
          chatCalls' = [chatCalls EXCEPT ![i] =
                           [query |-> chatCalls[i].query, newHistory |-> chatCalls[i].newHistory,
                            status |-> "rejected"]]
    /\ chatLoading' = FALSE
    /\ UNCHANGED << chatHistory, chatInput >>
    /\ ChatFrame

ChatNext == SetChatInput \/ handleChatSubmit \/ ChatResolves \/ ChatRejects

ChatSpec == ChatInit /\ [][ChatNext]_vars

(***************************************************************************)
(* Vocabulary of the properties.                                           *)
(***************************************************************************)
Returned == pc = "returned"

M == Len(analysisData)

\* every Q and every U of the list is >= 0
AllQNonNegative == \A k \in 1..M : analysisData[k].Q_i[1] >= 0

AllUNonNegative == \A k \in 1..M : analysisData[k].U_i[1] >= 0

\* the sum of the numbers f[k], k in the finite set S
RECURSIVE SumOver(_, _)
SumOver(S, f) ==
    IF S = {} THEN Num(0)
    ELSE LET k == CHOOSE x \in S : TRUE IN RAdd(f[k], SumOver(S \ {k}, f))

\* the sum of all Q of the list
TotalQ == SumOver(1..M, [k \in 1..M |-> analysisData[k].Q_i])

\* x limited to the closed interval [1/1000, 1000]
Clamped(x) ==
    IF RLt(x, << 1, 1000 >>) THEN << 1, 1000 >>
    ELSE IF RLt(<< 1000, 1 >>, x) THEN << 1000, 1 >>
    ELSE x

\* 1 - P(H_i) of the returned prior of hypothesis i
Denominator(i) == RSub(Num(1), results[i].prior_P_H)

\* hypothesis i was scored on the normal path: 1 - P(H_i) > 0.0001
OnNormalPath(i) == RLt(<< 1, 10000 >>, Denominator(i))

\* hypothesis i was scored on the near-certain path: 1 - P(H_i) <= 0.0001
OnNearCertainPath(i) == RLeq(Denominator(i), << 1, 10000 >>)

\* the LR that hypothesis i would get before the clamp
RawLR(i) ==
    RDiv(analysisData[i].U_i,
         IF results[i].catchall_P_E_NotH = Num(0) THEN << 1, 1000 >>
         ELSE results[i].catchall_P_E_NotH)

(***************************************************************************)
(* C1: for every non-empty judgment list with all Q >= 0 and all U >= 0,   *)
(* every LR the Scorer returns lies in [0.001, 1000], on the normal path   *)
(* and on the near-certain path.                                           *)
(***************************************************************************)
C1_LRWithinBounds ==
    (Returned /\ M >= 1 /\ AllQNonNegative /\ AllUNonNegative) =>
        /\ Len(results) = M
        /\ \A i \in 1..M :
              /\ RLeq(<< 1, 1000 >>, results[i].LR)
              /\ RLeq(results[i].LR, << 1000, 1 >>)

\* a list with a near-certain hypothesis, a hypothesis whose raw LR exceeds
\* 1000 and a hypothesis whose raw LR is below 0.001
C1_Witness ==
    /\ Returned /\ M >= 1 /\ AllQNonNegative /\ AllUNonNegative
    /\ \E i \in 1..M : OnNearCertainPath(i)
    /\ \E i \in 1..M : OnNormalPath(i) /\ RLt(<< 1000, 1 >>, RawLR(i))
    /\ \E i \in 1..M : OnNormalPath(i) /\ RLt(RawLR(i), << 1, 1000 >>)

(***************************************************************************)
(* C2: for every non-empty judgment list with all Q >= 0 and sum of Q > 0, *)
(* each returned prior is in [0, 1] and equals Q_i / sum(Q), and the       *)
(* priors sum to 1.                                                        *)
(***************************************************************************)
C2_PriorsNormalized ==
    (Returned /\ M >= 1 /\ AllQNonNegative /\ RLt(Num(0), TotalQ)) =>
        /\ Len(results) = M
        /\ \A i \in 1..M :
              /\ results[i].prior_P_H = RDiv(analysisData[i].Q_i, TotalQ)
              /\ RLeq(Num(0), results[i].prior_P_H)
              /\ RLeq(results[i].prior_P_H, Num(1))
        /\ SumOver(1..M, [i \in 1..M |-> results[i].prior_P_H]) = Num(1)

\* three hypotheses with three different priors, none of them 0 or 1
C2_Witness ==
    /\ Returned /\ M = 3 /\ AllQNonNegative /\ RLt(Num(0), TotalQ)
    /\ \A i \in 1..M : RLt(Num(0), results[i].prior_P_H)
    /\ \A i, j \in 1..M : i # j => results[i].prior_P_H # results[j].prior_P_H

(***************************************************************************)
(* C3: for every hypothesis i with 1 - P(H_i) > 0.0001 the catchall is the *)
(* sum over j # i of (P(H_j) / (1 - P(H_i))) * U_j, the LR is U_i divided  *)
(* by the catchall (0.001 in place of a catchall of 0) clamped to          *)
(* [0.001, 1000], and the likelihood is U_i.                               *)
(***************************************************************************)
WeightedOthers(i) ==
    SumOver((1..M) \ {i},
            [j \in 1..M |->
                RMul(RDiv(results[j].prior_P_H, Denominator(i)), analysisData[j].U_i)])

C3_CatchAllAndLR ==
    Returned =>
        /\ Len(results) = M
        /\ \A i \in 1..M : OnNormalPath(i) =>
              /\ results[i].catchall_P_E_NotH = WeightedOthers(i)
              /\ results[i].LR =
                    Clamped(RDiv(analysisData[i].U_i,
                                 IF WeightedOthers(i) = Num(0) THEN << 1, 1000 >>
                                 ELSE WeightedOthers(i)))
              /\ results[i].likelihood_P_E_H = analysisData[i].U_i

\* three hypotheses with unequal priors and unequal U on the normal path, one
\* of them with an LR strictly inside the clamp interval and different from 1
C3_Witness ==
    /\ Returned /\ M = 3 /\ AllQNonNegative /\ AllUNonNegative
    /\ \A i \in 1..M : OnNormalPath(i)
    /\ \E i, j \in 1..M :
          /\ results[i].prior_P_H # results[j].prior_P_H
          /\ RLt(Num(0), results[i].prior_P_H)
          /\ RLt(Num(0), results[j].prior_P_H)
          /\ analysisData[i].U_i # analysisData[j].U_i
    /\ \E i \in 1..M :
          /\ RLt(<< 1, 1000 >>, results[i].LR)
          /\ RLt(results[i].LR, << 1000, 1 >>)
          /\ results[i].LR # Num(1)
          /\ results[i].catchall_P_E_NotH \notin UValues

(***************************************************************************)
(* C4: if all Q_i equal one value q >= 0 and all U_i equal one value       *)
(* u >= 0 (M >= 1), every LR is 1.0.                                       *)
(***************************************************************************)
AllJudgmentsEqual ==
    \A i, j \in 1..M :
        /\ analysisData[i].Q_i = analysisData[j].Q_i
        /\ analysisData[i].U_i = analysisData[j].U_i

EveryLRNeutral == Len(results) = M /\ \A i \in 1..M : results[i].LR = Num(1)

\* the claim as stated: q >= 0 and u >= 0
C4_AsStated ==
    (Returned /\ M >= 1 /\ AllJudgmentsEqual /\ AllQNonNegative /\ AllUNonNegative) =>
        EveryLRNeutral

\* C4 as amended: the shared q is > 0, and the shared u is > 0 unless M = 1
C4_EqualJudgmentsNeutral ==
    (/\ Returned /\ M >= 1 /\ AllJudgmentsEqual
     /\ RLt(Num(0), analysisData[1].Q_i)
     /\ (M = 1 \/ RLt(Num(0), analysisData[1].U_i))) =>
        EveryLRNeutral

\* the three equal hypotheses Q = 1, U = 1 of the concrete scenario: all
\* priors 1/3, all LRs 1
C4_Witness ==
    /\ Returned /\ M = 3 /\ AllJudgmentsEqual
    /\ analysisData[1].Q_i = Num(1) /\ analysisData[1].U_i = Num(1)
    /\ \A i \in 1..M : results[i].prior_P_H = << 1, 3 >> /\ OnNormalPath(i)
    /\ EveryLRNeutral

(***************************************************************************)
(* C5: for a judgment list with exactly one entry, any Q >= 0 and any      *)
(* U >= 0, the Scorer returns LR = 1.0 and catchall = 0.                   *)
(***************************************************************************)
\* the claim as stated
C5_AsStated ==
    (Returned /\ M = 1 /\ AllQNonNegative /\ AllUNonNegative) =>
        /\ Len(results) = 1
        /\ results[1].LR = Num(1)
        /\ results[1].catchall_P_E_NotH = Num(0)

\* C5 as amended: the catchall is 0 for every Q >= 0; the LR is 1.0 when
\* Q > 0, and when Q = 0 (prior 0, normal path with no competitor) it is
\* U / 0.001 clamped to [0.001, 1000]
C5_SingleHypothesis ==
    (Returned /\ M = 1 /\ AllQNonNegative /\ AllUNonNegative) =>
        /\ Len(results) = 1
        /\ results[1].catchall_P_E_NotH = Num(0)
        /\ RLt(Num(0), analysisData[1].Q_i) => results[1].LR = Num(1)
        /\ analysisData[1].Q_i = Num(0) =>
              results[1].LR = Clamped(RMul(analysisData[1].U_i, Num(1000)))

\* a single hypothesis with Q > 0 and U = 5 scored on the near-certain path
C5_Witness ==
    /\ Returned /\ M = 1
    /\ RLt(Num(0), analysisData[1].Q_i) /\ analysisData[1].U_i = Num(5)
    /\ results[1].prior_P_H = Num(1) /\ OnNearCertainPath(1)
    /\ results[1].LR = Num(1)

(***************************************************************************)
(* C6: a hypothesis with 1 - P(H_i) <= 0.0001 gets exactly LR = 1.0 and    *)
(* catchall = 0 whatever the U values are, with its prior and its U_i      *)
(* reported; the other hypotheses of the cluster are still scored by the   *)
(* normal path; no exception is raised (one finite result per judgment).   *)
(***************************************************************************)
\* Q_i / sum(Q), with the sum replaced by 1 when it is 0
ExpectedPrior(i) ==
    RDiv(analysisData[i].Q_i, IF TotalQ = Num(0) THEN Num(1) ELSE TotalQ)

ResultIsFinite(i) ==
    /\ IsFinite(results[i].prior_P_H)
    /\ IsFinite(results[i].likelihood_P_E_H)
    /\ IsFinite(results[i].catchall_P_E_NotH)
    /\ IsFinite(results[i].LR)

C6_NearCertainNeutral ==
    Returned =>
        /\ Len(results) = M
        /\ \A i \in 1..M : ResultIsFinite(i) /\ results[i].prior_P_H = ExpectedPrior(i)
        /\ \A i \in 1..M : RLeq(RSub(Num(1), ExpectedPrior(i)), << 1, 10000 >>) =>
              /\ results[i].LR = Num(1)
              /\ results[i].catchall_P_E_NotH = Num(0)
              /\ results[i].likelihood_P_E_H = analysisData[i].U_i
              /\ \A j \in (1..M) \ {i} : OnNormalPath(j) =>
                    /\ results[j].catchall_P_E_NotH = WeightedOthers(j)
                    /\ results[j].LR = Clamped(RawLR(j))

\* Q = 9999 against Q = 1: 1 - P(H_i) is exactly 0.0001, U_i is 5, and the
\* other hypothesis is on the normal path with a catchall of 5
C6_Witness ==
    /\ Returned /\ M = 2 /\ AllQNonNegative
    /\ \E i, j \in 1..M :
          /\ i # j
          /\ Denominator(i) = << 1, 10000 >>
          /\ analysisData[i].U_i = Num(5)
          /\ results[i].LR = Num(1)
          /\ OnNormalPath(j)
          /\ results[j].catchall_P_E_NotH = Num(5)
          /\ results[j].LR = << 1, 5 >>

(***************************************************************************)
(* C7: when all Q_j are >= 0 and their sum is exactly 0, the Scorer        *)
(* divides by 1, so every prior is 0 (not 1/M), and one result per         *)
(* hypothesis is still returned.                                           *)
(***************************************************************************)
C7_ZeroSumPriors ==
    (Returned /\ AllQNonNegative /\ TotalQ = Num(0)) =>
        /\ Len(results) = M
        /\ \A i \in 1..M :
              /\ results[i].prior_P_H = Num(0)
              /\ results[i].hypothesis_id = analysisData[i].hypothesis_id

\* three hypotheses with Q = 0 each
C7_Witness ==
    /\ Returned /\ M = 3
    /\ \A i \in 1..M : analysisData[i].Q_i = Num(0) /\ results[i].prior_P_H = Num(0)

(***************************************************************************)
(* C8: on the normal path, when the accumulated catch-all is exactly 0 the *)
(* LR is U_i / 0.001 clamped to [0.001, 1000] and the emitted catchall     *)
(* stays 0; when the accumulated catch-all is not 0 nothing is             *)
(* substituted.                                                            *)
(***************************************************************************)
C8_ZeroCatchAll ==
    Returned =>
        /\ Len(results) = M
        /\ \A i \in 1..M : OnNormalPath(i) =>
              IF WeightedOthers(i) = Num(0)
              THEN /\ results[i].catchall_P_E_NotH = Num(0)
                   /\ results[i].LR = Clamped(RMul(analysisData[i].U_i, Num(1000)))
              ELSE /\ results[i].catchall_P_E_NotH # Num(0)
                   /\ results[i].LR =
                         Clamped(RDiv(analysisData[i].U_i, results[i].catchall_P_E_NotH))

\* a normal-path hypothesis with U = 1 and accumulated catch-all 0, whose LR
\* is 1 / 0.001 = 1000 while its catchall field is 0, beside a normal-path
\* hypothesis whose catch-all is not 0
C8_Witness ==
    /\ Returned /\ AllQNonNegative /\ AllUNonNegative
    /\ \E i \in 1..M :
          /\ OnNormalPath(i) /\ WeightedOthers(i) = Num(0)
          /\ results[i].catchall_P_E_NotH = Num(0)
          /\ analysisData[i].U_i = Num(1) /\ results[i].LR = Num(1000)
    /\ \E i \in 1..M : OnNormalPath(i) /\ RLt(Num(0), results[i].catchall_P_E_NotH)

(***************************************************************************)
(* C9: in a two-hypothesis cluster with Q_1 > 0, Q_2 > 0 and neither prior *)
(* within 0.0001 of 1, the catch-all of each hypothesis is the other       *)
(* hypothesis's U whatever the Q values are, so for U_1, U_2 > 0           *)
(* LR_1 = clamp(U_1 / U_2) and LR_2 = clamp(U_2 / U_1); H1{Q=2,U=5},       *)
(* H2{Q=1,U=1} gives LR_H1 = 5 and LR_H2 = 0.2.                            *)
(***************************************************************************)
SpecScenario ==
    /\ M = 2
    /\ analysisData[1].Q_i = Num(2) /\ analysisData[1].U_i = Num(5)
    /\ analysisData[2].Q_i = Num(1) /\ analysisData[2].U_i = Num(1)

C9_TwoHypotheses ==
    (/\ Returned /\ M = 2
     /\ RLt(Num(0), analysisData[1].Q_i) /\ RLt(Num(0), analysisData[2].Q_i)
     /\ Len(results) = 2 /\ OnNormalPath(1) /\ OnNormalPath(2)) =>
        /\ results[1].catchall_P_E_NotH = analysisData[2].U_i
        /\ results[2].catchall_P_E_NotH = analysisData[1].U_i
        /\ (RLt(Num(0), analysisData[1].U_i) /\ RLt(Num(0), analysisData[2].U_i)) =>
              /\ results[1].LR = Clamped(RDiv(analysisData[1].U_i, analysisData[2].U_i))
              /\ results[2].LR = Clamped(RDiv(analysisData[2].U_i, analysisData[1].U_i))
        /\ SpecScenario => results[1].LR = Num(5) /\ results[2].LR = << 1, 5 >>

\* the scenario H1{Q=2,U=5}, H2{Q=1,U=1}: priors 2/3 and 1/3, LRs 5 and 1/5
C9_Witness ==
    /\ Returned /\ SpecScenario
    /\ results[1].prior_P_H = << 2, 3 >> /\ results[2].prior_P_H = << 1, 3 >>
    /\ OnNormalPath(1) /\ OnNormalPath(2)
    /\ results[1].LR = Num(5) /\ results[2].LR = << 1, 5 >>

(***************************************************************************)
(* C10: for every hypothesis i on the normal path of a cluster with all    *)
(* Q >= 0 and sum of Q > 0, the weights w_{j,i} = P(H_j) / (1 - P(H_i)),   *)
(* j # i, are each >= 0 and sum to 1, so the catch-all lies between the    *)
(* minimum and the maximum U_j of the other hypotheses.                    *)
(***************************************************************************)
WeightOf(j, i) == RDiv(results[j].prior_P_H, Denominator(i))

C10_WeightsRenormalize ==
    (Returned /\ M >= 1 /\ AllQNonNegative /\ RLt(Num(0), TotalQ)) =>
        /\ Len(results) = M
        /\ \A i \in 1..M : OnNormalPath(i) =>
              /\ \A j \in (1..M) \ {i} : RLeq(Num(0), WeightOf(j, i))
              /\ SumOver((1..M) \ {i}, [j \in 1..M |-> WeightOf(j, i)]) = Num(1)
              /\ \E j \in (1..M) \ {i} :
                    RLeq(analysisData[j].U_i, results[i].catchall_P_E_NotH)
              /\ \E j \in (1..M) \ {i} :
                    RLeq(results[i].catchall_P_E_NotH, analysisData[j].U_i)

\* three hypotheses, one of them with two competitors of different weights
\* (neither 0) and different U: its catch-all is strictly between the two U
C10_Witness ==
    /\ Returned /\ M = 3 /\ AllQNonNegative /\ AllUNonNegative /\ RLt(Num(0), TotalQ)
    /\ \E i \in 1..M :
          /\ OnNormalPath(i)
          /\ \A j \in (1..M) \ {i} : RLt(Num(0), WeightOf(j, i))
          /\ \E j, k \in (1..M) \ {i} :
                /\ WeightOf(j, i) # WeightOf(k, i)
                /\ RLt(analysisData[j].U_i, results[i].catchall_P_E_NotH)
                /\ RLt(results[i].catchall_P_E_NotH, analysisData[k].U_i)

(***************************************************************************)
(* C11: for every non-empty judgment list of finite numbers, negative Q or *)
(* U included, the Scorer never divides by zero and never raises: it       *)
(* returns one result per judgment with finite prior, likelihood and       *)
(* catchall and an LR within [0.001, 1000].                                *)
(***************************************************************************)
\* no divisor of the computation is 0: the sum divisor, the weight
\* denominator of every normal-path hypothesis and the catch-all divisor
DivisorsNonZero ==
    /\ (IF TotalQ = Num(0) THEN Num(1) ELSE TotalQ) # Num(0)
    /\ \A i \in 1..M : OnNormalPath(i) =>
          /\ Denominator(i) # Num(0)
          /\ (IF results[i].catchall_P_E_NotH = Num(0) THEN << 1, 1000 >>
              ELSE results[i].catchall_P_E_NotH) # Num(0)

FiniteAndBounded ==
    /\ Len(results) = M
    /\ \A i \in 1..M :
          /\ ResultIsFinite(i)
          /\ RLeq(<< 1, 1000 >>, results[i].LR)
          /\ RLeq(results[i].LR, << 1000, 1 >>)
    /\ DivisorsNonZero

\* the claim as stated: every list of finite numbers
C11_AsStated == (Returned /\ M >= 1) => FiniteAndBounded

\* no sum or product of the computation exceeds the largest finite number:
\* the sum of Q, the priors, and the weighted terms of every catch-all
\* with their sum
NoOverflow ==
    /\ IsFinite(TotalQ)
    /\ \A i \in 1..M :
          /\ IsFinite(ExpectedPrior(i))
          /\ RLt(<< 1, 10000 >>, RSub(Num(1), ExpectedPrior(i))) =>
                \A S \in SUBSET ((1..M) \ {i}) :
                    IsFinite(SumOver(S,
                        [j \in 1..M |->
                            RMul(RDiv(ExpectedPrior(j), RSub(Num(1), ExpectedPrior(i))),
                                 analysisData[j].U_i)]))

\* C11 as amended: every list of finite numbers whose computation does not
\* overflow
C11_FiniteWithoutOverflow == (Returned /\ M >= 1 /\ NoOverflow) => FiniteAndBounded

\* a list with a negative Q and a negative U whose raw LR is negative and is
\* clamped to 0.001, beside a near-certain hypothesis with a prior above 1
C11_Witness ==
    /\ Returned /\ M >= 2 /\ NoOverflow /\ FiniteAndBounded
    /\ \E k \in 1..M : analysisData[k].Q_i[1] < 0
    /\ \E k \in 1..M : analysisData[k].U_i[1] < 0
    /\ \E i \in 1..M : RLt(Num(1), results[i].prior_P_H) /\ results[i].LR = Num(1)
    /\ \E i \in 1..M :
          /\ OnNormalPath(i) /\ RLt(RawLR(i), Num(0))
          /\ results[i].LR = << 1, 1000 >>

(***************************************************************************)
(* C18: the Scorer emits exactly one result per input judgment, in input   *)
(* order, each carrying the hypothesis_id of its judgment; an empty list   *)
(* yields an empty result list.                                            *)
(***************************************************************************)
C18_OneResultPerJudgment ==
    Returned =>
        /\ Len(results) = Len(analysisData)
        /\ \A i \in 1..Len(analysisData) :
              results[i].hypothesis_id = analysisData[i].hypothesis_id
        /\ (analysisData = << >>) => (results = << >>)

\* three judgments, the second scored on the near-certain path and the
\* others on the normal path, each result under its judgment's id
C18_Witness ==
    /\ Returned /\ M = 3 /\ Len(results) = 3
    /\ OnNormalPath(1) /\ OnNearCertainPath(2) /\ OnNormalPath(3)
    /\ \A i \in 1..3 : results[i].hypothesis_id = analysisData[i].hypothesis_id
    /\ results[1].hypothesis_id # results[2].hypothesis_id
    /\ results[2].hypothesis_id # results[3].hypothesis_id

(***************************************************************************)
(* C19: the result for each hypothesis does not depend on the order of the *)
(* judgment list: after any permutation of the same judgments each         *)
(* hypothesis_id gets the same prior, likelihood, catchall and LR.         *)
(***************************************************************************)
\* the list with the judgments at positions a and b exchanged
Swapped(data, a, b) == [data EXCEPT ![a] = data[b], ![b] = data[a]]

\* the result the Scorer gives hypothesis id in the list data
ResultFor(data, id) ==
    LET res == processBayesianConfirmation(data)
    IN  { res[k] : k \in { n \in 1..Len(res) : res[n].hypothesis_id = id } }

\* exchanging two neighbours changes no hypothesis's result; every
\* permutation is a sequence of such exchanges
C19_OrderIndependent ==
    Returned =>
        \A a \in 1..(M - 1) :
            \A i \in 1..M :
                ResultFor(Swapped(analysisData, a, a + 1), analysisData[i].hypothesis_id)
                    = { results[i] }

\* in rounded arithmetic the order of the additions in sumQ decides on which
\* side of the near-certain threshold a prior falls: a hypothesis scored
\* near-certain (catchall 0, LR 1.0) in this order gets an LR below 0.9
\* after two neighbours are exchanged
C19_ThresholdFlip ==
    /\ Returned /\ M = 3 /\ precision > 0
    /\ \E a \in 1..2 : \E i \in 1..3 :
          /\ OnNearCertainPath(i)
          /\ results[i].LR = Num(1) /\ results[i].catchall_P_E_NotH = Num(0)
          /\ \E r \in ResultFor(Swapped(analysisData, a, a + 1),
                                analysisData[i].hypothesis_id) :
                RLt(r.LR, << 9, 10 >>)

(***************************************************************************)
(* Vocabulary of the Combiner claims.                                      *)
(***************************************************************************)
Clusters == report.evidence_clusters

\* the scores of both computations are those of the report on display
Combined == pc = "chatted"

\* the product of the LRs of hypothesis hId over the clusters, from cluster
\* k on, that hold a value for it
RECURSIVE ProductFrom(_, _, _)
ProductFrom(clusters, hId, k) ==
    IF k > Len(clusters) THEN Num(1)
    ELSE IF hId \in DOMAIN clusters[k].lrs
         THEN RMul(clusters[k].lrs[hId], ProductFrom(clusters, hId, k + 1))
    ELSE ProductFrom(clusters, hId, k + 1)

Product(hId) == ProductFrom(Clusters, hId, 1)

\* the clusters that hold a value for hId
Holding(hId) == { k \in 1..Len(Clusters) : hId \in DOMAIN Clusters[k].lrs }

\* the cumulative score the report view gives hypothesis hId
RawScore(hId) ==
    { radarData[n].rawScore : n \in { j \in 1..Len(radarData) : radarData[j].subject = hId } }

(***************************************************************************)
(* C13: for every hypothesis the cumulative score equals the product of    *)
(* its LR over all clusters that hold a value for it, a cluster with no    *)
(* entry contributing the factor 1.0; LRs 4.0 and 0.5 give 2.0.            *)
(***************************************************************************)
C13_ProductOfLRs ==
    Combined =>
        /\ \A hId \in DOMAIN scores : scores[hId] = Product(hId)
        /\ \A n \in 1..Len(report.hypotheses) :
              RawScore(report.hypotheses[n]) = { Product(report.hypotheses[n]) }

\* the LR 0 of a stored report is multiplied in as 1 by the report view
C13_ZeroCountedAsOne ==
    /\ Combined /\ Len(Clusters) = 2
    /\ Get(Clusters[1].lrs, "H1") = Num(4) /\ Get(Clusters[2].lrs, "H1") = Num(0)
    /\ RawScore("H1") = { Num(4) } /\ Product("H1") = Num(0)

(***************************************************************************)
(* C14: the Combiner is order-independent: for any list of per-cluster LR  *)
(* maps with non-negative values and any reordering of the clusters every  *)
(* hypothesis gets the same cumulative score.                              *)
(***************************************************************************)
\* exchanging two neighbouring clusters changes no score; every reordering
\* is a sequence of such exchanges
C14_OrderIndependent ==
    Combined =>
        \A a \in 1..(Len(Clusters) - 1) :
            LET swapped == [report EXCEPT !.evidence_clusters = Swapped(Clusters, a, a + 1)]
            IN  /\ ChatScores(swapped.evidence_clusters) = scores
                /\ RadarData(swapped) = radarData

\* chatWithAnalyst gives H1 the score 4 for the LRs 0, 4 and the score 0
\* for the LRs 4, 0
C14_ZeroThenFour ==
    /\ Combined /\ Len(Clusters) = 2
    /\ Get(Clusters[1].lrs, "H1") = Num(0) /\ Get(Clusters[2].lrs, "H1") = Num(4)
    /\ scores["H1"] = Num(4)
    /\ ChatScores(Swapped(Clusters, 1, 2))["H1"] = Num(0)

(***************************************************************************)
(* C15: combining an empty list of clusters yields an empty mapping, and   *)
(* for any number of clusters that all report LR = 1.0 for hypothesis H    *)
(* the cumulative score of H is exactly 1.0.                               *)
(***************************************************************************)
\* every cluster holds the LR 1.0 for hId
AllReportOne(hId) == \A k \in 1..Len(Clusters) : Get(Clusters[k].lrs, hId) = Num(1)

C15_EmptyList ==
    /\ Combined /\ Clusters = << >> /\ scores = << >>
    /\ Len(radarData) = 2 /\ RawScore("H1") = { Num(1) } /\ RawScore("H2") = { Num(1) }

(***************************************************************************)
(* Vocabulary of the claims about the scoring phase of analyzeTopic.       *)
(***************************************************************************)
\* analyzeTopic has returned the report
Resolved == pc = "resolved"

\* cluster k received scoring results
Scored(k) == "stats" \in DOMAIN Clusters[k]

\* the lrs objects of the items of cluster k
ItemObjects(k) == { Clusters[k].items[j].lrsObj : j \in 1..Len(Clusters[k].items) }

(***************************************************************************)
(* C16: after the scoring phase, for every cluster that received scoring   *)
(* results, the lrs map of every evidence item nested in it has exactly    *)
(* the keys and values of the cluster's lrs map, and it is a separate copy *)
(* per item, not the cluster's own map object.                             *)
(***************************************************************************)
C16_ItemsCopyClusterLrs ==
    Resolved =>
        \A k \in 1..Len(Clusters) : Scored(k) =>
            /\ \A j \in 1..Len(Clusters[k].items) :
                  /\ DOMAIN Clusters[k].items[j].lrs = DOMAIN Clusters[k].lrs
                  /\ \A hId \in DOMAIN Clusters[k].lrs :
                        Clusters[k].items[j].lrs[hId] = Clusters[k].lrs[hId]
                  /\ Clusters[k].items[j].lrsObj # Clusters[k].lrsObj
            /\ Cardinality(ItemObjects(k)) = Len(Clusters[k].items)

\* the second cluster, with two items, was scored with LR 5 for H1 and 0.2
\* for H2: both items hold these values in two objects that are neither
\* each other nor the cluster's
C16_Witness ==
    /\ Resolved /\ Len(Clusters) = 2 /\ Scored(2)
    /\ Clusters[2].lrs = [hId \in { "H1", "H2" } |->
                             IF hId = "H1" THEN Num(5) ELSE << 1, 5 >>]
    /\ Len(Clusters[2].items) = 2
    /\ Clusters[2].items[1].lrs = Clusters[2].lrs
    /\ Clusters[2].items[2].lrs = Clusters[2].lrs
    /\ Clusters[2].items[1].lrsObj # Clusters[2].items[2].lrsObj
    /\ Clusters[2].lrsObj \notin ItemObjects(2)

(***************************************************************************)
(* C17: clusters are scored independently: the lrs, stats and item lrs     *)
(* written to a cluster depend only on the judgment list matched to that   *)
(* cluster's id, scoring one cluster leaves every other cluster unchanged, *)
(* and no prior or LR is carried from one cluster to the next.             *)
(***************************************************************************)
\* the judgment lists of the response that carry the cluster id cid
MatchedLists(cid) ==
    IF "clusters" \in DOMAIN scoringResponse
    THEN { scoringResponse.clusters[n].analysis :
             n \in { m \in 1..Len(scoringResponse.clusters) :
                       scoringResponse.clusters[m].cluster_id = cid } }
    ELSE {}

\* cluster after is cluster before with the Scorer's results on judgments,
\* and nothing else, written to it
ScoredFrom(before, after, judgments) ==
    LET res == processBayesianConfirmation(judgments)
        ids == { res[n].hypothesis_id : n \in 1..Len(res) }
    IN  /\ after.id = before.id /\ after.lrsObj = before.lrsObj
        /\ DOMAIN after.lrs = (DOMAIN before.lrs) \cup ids
        /\ DOMAIN after.stats = ids
        /\ \A n \in 1..Len(res) :
              /\ after.lrs[res[n].hypothesis_id] = res[n].LR
              /\ after.stats[res[n].hypothesis_id].lr = res[n].LR
              /\ after.stats[res[n].hypothesis_id].p_h = res[n].prior_P_H
              /\ after.stats[res[n].hypothesis_id].p_e_h = res[n].likelihood_P_E_H
              /\ after.stats[res[n].hypothesis_id].p_e_not_h = res[n].catchall_P_E_NotH
        /\ \A hId \in (DOMAIN before.lrs) \ ids : after.lrs[hId] = before.lrs[hId]
        /\ Len(after.items) = Len(before.items)
        /\ \A j \in 1..Len(after.items) : after.items[j].lrs = after.lrs

\* every step of the scoring phase leaves a cluster as it was or writes to
\* it the results of a judgment list that the response holds under the
\* cluster's own id
C17_ClustersIndependent ==
    [][ /\ Len(report'.evidence_clusters) = Len(report.evidence_clusters)
        /\ \A k \in 1..Len(report.evidence_clusters) :
              \/ report'.evidence_clusters[k] = report.evidence_clusters[k]
              \/ \E a \in MatchedLists(report.evidence_clusters[k].id)' :
                    /\ a.kind = "list"
                    /\ ScoredFrom(report.evidence_clusters[k],
                                  report'.evidence_clusters[k], a.judgments) ]_vars

\* both clusters were scored, from different lists given in the opposite
\* order: the first has the LRs of AnalysisA (5 and 0.2), the second those
\* of AnalysisB (0.3, 10 and 0.001), each with the priors of its own list
C17_Witness ==
    /\ Resolved /\ Len(Clusters) = 2 /\ Scored(1) /\ Scored(2)
    /\ "clusters" \in DOMAIN scoringResponse
    /\ Len(scoringResponse.clusters) = 2
    /\ scoringResponse.clusters[1].cluster_id = "c2"
    /\ scoringResponse.clusters[2].cluster_id = "c1"
    /\ Get(Clusters[1].lrs, "H1") = Num(5)
    /\ Get(Clusters[1].lrs, "H2") = << 1, 5 >>
    /\ Get(Clusters[2].lrs, "H1") = << 3, 10 >>
    /\ Get(Clusters[2].lrs, "H2") = Num(10)
    /\ Get(Clusters[2].lrs, "H3") = << 1, 1000 >>
    /\ Get(Clusters[1].stats, "H1").p_h = << 2, 3 >>
    /\ Get(Clusters[2].stats, "H1").p_h = << 1, 4 >>

(***************************************************************************)
(* C20: if anything fails inside the scoring phase (the scoring request    *)
(* rejects after retries, its text is not valid JSON, or processing some   *)
(* cluster's analysis throws), analyzeTopic still resolves with the        *)
(* report, and every cluster LR in that report is the neutral value 1.0.   *)
(***************************************************************************)
\* processing the analysis of some cluster of the report throws
ProcessingThrows ==
    /\ "clusters" \in DOMAIN scoringResponse
    /\ \E k \in 1..Len(Clusters) :
          FindAnalysis(scoringResponse.clusters, Clusters[k].id).kind = "malformed"

ScoringFailed ==
    \/ scoringResponse.outcome \in { "rejected", "invalid" }
    \/ ProcessingThrows

EveryClusterLRNeutral ==
    \A k \in 1..Len(Clusters) :
        \A hId \in DOMAIN Clusters[k].lrs : Clusters[k].lrs[hId] = Num(1)

C20_FailureLeavesNeutral ==
    (Resolved /\ ScoringFailed) => EveryClusterLRNeutral

\* the first cluster was scored (LR 5 for H1) before the analysis of the
\* second threw
C20_ScoredBeforeThrow ==
    /\ Resolved /\ ProcessingThrows /\ Len(Clusters) = 2
    /\ Scored(1) /\ ~Scored(2)
    /\ Get(Clusters[1].lrs, "H1") = Num(5)
    /\ FindAnalysis(scoringResponse.clusters, "c2").kind = "malformed"

(***************************************************************************)
(* Vocabulary of the generateWithRetry claims.                             *)
(***************************************************************************)
IsPrefix(s, t) == Len(s) <= Len(t) /\ \A i \in 1..Len(s) : s[i] = t[i]

\* generateWithRetry has returned a value or thrown an error
Settled == pc = "settled"

(***************************************************************************)
(* C21: generateWithRetry with its defaults invokes callFn at most 4 times *)
(* (1 attempt and 3 retries), waits 2000, 4000 and 8000 ms before the      *)
(* successive retries, and always terminates with a value or an error,     *)
(* provided every invocation of callFn settles.                            *)
(***************************************************************************)
C21_BoundedAndTerminates ==
    /\ [](/\ Len(attempts) <= 4
          /\ Len(waits) = IF pc = "waiting" THEN Len(attempts) ELSE Len(attempts) - 1
          /\ IsPrefix(waits, << 2000, 4000, 8000 >>))
    /\ <>(Settled /\ outcome.kind \in { "value", "error" })

\* the fourth invocation, made after the three waits, has settled
C21_Witness ==
    /\ Settled
    /\ Len(attempts) = 4
    /\ waits = << 2000, 4000, 8000 >>

(***************************************************************************)
(* C22: generateWithRetry invokes callFn again only after a retryable      *)
(* failure (status 429 or 503, or a message containing '429', '503' or     *)
(* 'Resource has been exhausted') and only while retries remain; the first *)
(* success is returned with no further invocation, a non-retryable error   *)
(* is rethrown after exactly that attempt, and when the retries are        *)
(* exhausted the error of the last attempt is rethrown.                    *)
(***************************************************************************)
RetryableFailure(a) ==
    /\ a.kind = "error"
    /\ \/ a.error.status \in { 429, 503 }
       \/ Includes(a.error.message, Text429)
       \/ Includes(a.error.message, Text503)
       \/ Includes(a.error.message, TextExhausted)

LastAttempt == attempts[Len(attempts)]

C22_RetryOnlyWhenRetryable ==
    /\ \A i \in 1..(Len(attempts) - 1) : RetryableFailure(attempts[i]) /\ i <= Retries
    /\ Settled =>
          /\ LastAttempt.kind \in { "value", "error" }
          /\ LastAttempt.kind = "value" =>
                outcome = [kind |-> "value", value |-> LastAttempt.value]
          /\ LastAttempt.kind = "error" =>
                /\ outcome = [kind |-> "error", error |-> LastAttempt.error]
                /\ ~RetryableFailure(LastAttempt) \/ Len(attempts) = Retries + 1
    /\ ~Settled => outcome.kind = "none"

\* a retryable failure, then a non-retryable one that is rethrown at once
C22_Witness ==
    /\ Settled
    /\ Len(attempts) = 2
    /\ RetryableFailure(attempts[1])
    /\ ~RetryableFailure(attempts[2])
    /\ outcome.kind = "error"

(***************************************************************************)
(* Vocabulary of the App claims.                                           *)
(***************************************************************************)
\* the step settles call i of analyzeTopic with the given status
Settles(i, status) ==
    /\ i \in PendingCalls
    /\ analyzeCalls'[i].status = status

\* the step submits a topic: a call of analyzeTopic is made
Submits == Len(analyzeCalls') = Len(analyzeCalls) + 1

\* when the report entered the history: the rank of its call among the
\* resolved calls, or its place in the stored history
AddedAt(rep) == IF rep.call >= 1 THEN analyzeCalls[rep.call].rank ELSE rep.call

(***************************************************************************)
(* C23: starting from a stored history of at most 10 reports, after any    *)
(* sequence of analyses, history loads and logouts the history holds at    *)
(* most 10 reports, the most recent first; a successful analysis puts its  *)
(* report at index 0 and drops the oldest beyond 10, a failed analysis     *)
(* leaves the history unchanged, and logout empties it.                    *)
(***************************************************************************)
C23_HistoryBounded ==
    /\ [](/\ Len(history) <= 10
          /\ \A k \in 1..(Len(history) - 1) :
                AddedAt(history[k]) > AddedAt(history[k + 1]))
    /\ [][/\ \A i \in 1..Len(analyzeCalls) :
                /\ Settles(i, "resolved") =>
                      /\ history'[1].call = i
                      /\ Len(history') = IF Len(history) < 10 THEN Len(history) + 1 ELSE 10
                      /\ \A k \in 2..Len(history') : history'[k] = history[k - 1]
                /\ Settles(i, "rejected") => history' = history
          /\ (user # Null /\ user' = Null) => history' = << >>]_vars

\* a full stored history received the report of a successful analysis and
\* lost its oldest report
C23_Witness ==
    /\ Len(history) = 10
    /\ history[1].call \in ResolvedCalls
    /\ history[10] = StoredReport(9)

(***************************************************************************)
(* C24: handleAnalyze with a blank topic (empty or white space only)       *)
(* starts nothing; with a non-blank topic it sets the phase to LOADING and *)
(* clears the error; when analyzeTopic settles, the phase becomes REPORT   *)
(* with the report set if and only if it resolved, and ERROR with a        *)
(* non-empty error message if and only if it rejected.                     *)
(***************************************************************************)
C24_AnalyzeTransitions ==
    [][/\ Submits =>
             /\ \E k \in 1..Len(topic) : topic[k] # " "
             /\ analyzeCalls'[Len(analyzeCalls')].topic = topic
             /\ phase' = "LOADING"
             /\ error' = ""
       /\ (phase' = "LOADING" /\ phase # "LOADING") => Submits
       /\ \A i \in 1..Len(analyzeCalls) :
             /\ Settles(i, "resolved") =>
                   /\ phase' = "REPORT"
                   /\ report' = [original_query |-> analyzeCalls[i].topic, call |-> i]
                   /\ error' = error
             /\ Settles(i, "rejected") =>
                   /\ phase' = "ERROR"
                   /\ error' # ""
                   /\ report' = report]_vars

\* one analysis has failed and a later one, submitted after it, has succeeded
C24_Witness ==
    /\ phase = "REPORT"
    /\ Len(analyzeCalls) = 2
    /\ analyzeCalls[1].status = "rejected"
    /\ analyzeCalls[2].status = "resolved"
    /\ error = ""
    /\ report.call = 2

(***************************************************************************)
(* C25: in every reachable state of the App (any sequence of submits,      *)
(* completions, 'New Analysis', 'Try Again', history loads, login and      *)
(* logout), phase = REPORT implies that the report is not null.            *)
(***************************************************************************)
C25_ReportShownIsSet == phase = "REPORT" => report # Null

\* 'New Analysis' was clicked while an analysis was loading, and the
\* analysis then resolved
C25_Witness ==
    /\ phase = "REPORT"
    /\ report # Null
    /\ user # Null
    /\ Len(analyzeCalls) = 2
    /\ analyzeCalls[1].status = "resolved"
    /\ analyzeCalls[2].status = "resolved"
    /\ report.call = 1

(***************************************************************************)
(* C26: at most one analyzeTopic call is in flight at any time, because    *)
(* the submit form is rendered only in phase INPUT: no sequence of UI      *)
(* actions starts a second analysis before the first has settled, so the   *)
(* report on display is never replaced by a late result.                   *)
(***************************************************************************)
C26_OneCallInFlight == Cardinality(PendingCalls) <= 1

\* a report on display is replaced only by a history load
C26_NoLateReplacement ==
    [][(phase = "REPORT" /\ report' # report /\ report' # Null) =>
           \A i \in 1..Len(analyzeCalls) : ~Settles(i, "resolved")]_vars

\* two analyses are in flight while the form is on display again
C26_TwoInFlight ==
    /\ Cardinality(PendingCalls) = 2
    /\ phase = "INPUT"

(***************************************************************************)
(* C27: under any interleaving of chat submissions and replies in the      *)
(* report view, a second submit from the floating chat form while a reply  *)
(* is pending included, chatHistory keeps every non-blank user message     *)
(* submitted and every reply received, in submission order.                *)
(***************************************************************************)
RECURSIVE TextsOf(_, _)
\* the texts of the messages of a role, in the order of the transcript
TextsOf(role, transcript) ==
    IF transcript = << >>
    THEN << >>
    ELSE LET rest == TextsOf(role, Tail(transcript))
         IN  IF Head(transcript).role = role
             THEN << Head(transcript).text >> \o rest
             ELSE rest

RECURSIVE RepliesReceived(_)
\* the replies of the resolved calls, in submission order
RepliesReceived(calls) ==
    IF calls = << >>
    THEN << >>
    ELSE LET rest == RepliesReceived(Tail(calls))
         IN  IF Head(calls).status = "resolved"
             THEN << Head(calls).reply >> \o rest
             ELSE rest

C27_TranscriptComplete ==
    /\ TextsOf("user", chatHistory) = [i \in 1..Len(chatCalls) |-> chatCalls[i].query]
    /\ TextsOf("model", chatHistory) = RepliesReceived(chatCalls)

\* both calls have resolved, the second message was submitted while the
\* first reply was pending, and the transcript lacks the first reply
C27_ReplyLost ==
    /\ Len(chatCalls) = 2
    /\ chatCalls[1].status = "resolved"
    /\ chatCalls[2].status = "resolved"
    /\ Len(chatCalls[2].newHistory) = 2
    /\ Len(TextsOf("model", chatHistory)) = 1

(***************************************************************************)
(* C28: the three implementations of the cumulative score agree: for any   *)
(* report whose cluster LRs are non-negative, and every hypothesis of the  *)
(* report that has an LR entry in at least one cluster, the score computed *)
(* by chatWithAnalyst equals the rawScore of the report view and the score *)
(* printed in the executive summary of the PDF.                            *)
(***************************************************************************)
\* the score the PDF prints for hypothesis hId
PrintedScore(hId) ==
    { pdfScores[n].score : n \in { j \in 1..Len(pdfScores) : pdfScores[j].id = hId } }

AllLRsNonNegative ==
    \A k \in 1..Len(Clusters) :
        \A hId \in DOMAIN Clusters[k].lrs : RLeq(Num(0), Clusters[k].lrs[hId])

C28_ThreeScoresAgree ==
    (Combined /\ pdfScores # << >> /\ AllLRsNonNegative) =>
        \A n \in 1..Len(report.hypotheses) :
            LET hId == report.hypotheses[n]
            IN  Holding(hId) # {} =>
                    /\ RawScore(hId) = { scores[hId] }
                    /\ PrintedScore(hId) = { scores[hId] }

\* LR 4 and then LR 0 for H1: chatWithAnalyst gives 0, the report view gives
\* 4 and the PDF prints 4.00
C28_ZeroLastDiffers ==
    /\ Combined
    /\ pdfScores # << >>
    /\ Len(Clusters) = 2
    /\ Get(Clusters[1].lrs, "H1") = Num(4)
    /\ Get(Clusters[2].lrs, "H1") = Num(0)
    /\ scores["H1"] = Num(0)
    /\ RawScore("H1") = { Num(4) }
    /\ PrintedScore("H1") = { Num(4) }

====
